---- MODULE Spec2Model ----
(***************************************************************************)
(* Model of plugins/modules/cli_tools.py: the Ansible module that installs *)
(* and removes the OpenShift / OKD command-line tools.                      *)
(*                                                                         *)
(* The filesystem is a function from the paths the module touches to       *)
(* entries (absent, regular file, directory, symbolic link).  A path       *)
(* f"{a}/{b}" is the tuple <<a, b>> and f"{dir}/{tool}-{release}" is the    *)
(* tuple <<dir, tool, "-", release>>; a URL is the tuple of the pieces of  *)
(* its f-string.  One invocation of the module (one process) runs at a     *)
(* time;                                                                   *)
(* it advances one file operation of process_state per step.  fail_json    *)
(* and exit_json end the process (SystemExit is not an Exception, so the   *)
(* "except Exception" clauses do not catch it).                            *)
(***************************************************************************)
EXTENDS Integers, Sequences, FiniteSets, TLC

\* Number of module invocations in one behaviour.
MaxRuns == 2

\* Release strings given as okd_release / ocp_release.
Releases == {"4.9.10", "4.9.0-0.okd-2021-11-28-035710"}

\* executable_directory: the default f"{HOME}/bin", a directory other than /tmp.
executable_directory == "/home/user/bin"

Tools == {"okd-install", "openshift-install", "oc"}
ScratchNames == {"okd_install", "openshift_install", "oc"}

-----------------------------------------------------------------------------
(* Paths *)

TmpTarGz(scratch) == <<"/tmp", scratch, ".tar.gz">>
TmpDir(scratch) == <<"/tmp", scratch>>
VersionedPath(tool, release) == <<executable_directory, tool, "-", release>>
UnversionedPath(tool) == <<executable_directory, tool>>

ScratchPaths == {TmpTarGz(s) : s \in ScratchNames} \cup {TmpDir(s) : s \in ScratchNames}
VersionedPaths == {VersionedPath(t, r) : t \in Tools, r \in Releases}
UnversionedPaths == {UnversionedPath(t) : t \in Tools}
Paths == ScratchPaths \cup VersionedPaths \cup UnversionedPaths

-----------------------------------------------------------------------------
(* URLs *)

okd_install_tar_gz_url(okd_release) ==
    <<"https://github.com/openshift/okd/releases/download/", okd_release,
      "/openshift-install-linux-", okd_release, ".tar.gz">>

okd_oc_tar_gz_url(okd_release) ==
    <<"https://github.com/openshift/okd/releases/download/", okd_release,
      "/openshift-client-linux-", okd_release, ".tar.gz">>

openshift_install_tar_gz_url(ocp_release) ==
    <<"https://mirror.openshift.com/pub/openshift-v4/clients/ocp/", ocp_release,
      "/openshift-install-linux.tar.gz">>

openshift_oc_install_tar_gz_url(ocp_release) ==
    <<"https://mirror.openshift.com/pub/openshift-v4/clients/ocp/", ocp_release,
      "/openshift-client-linux.tar.gz">>

\* The members of the archive published at a URL: the installer archives hold
\* openshift-install, the client archives hold oc and kubectl.
ArchiveMembers(url) ==
    IF url[3] \in {"/openshift-install-linux-", "/openshift-install-linux.tar.gz"}
    THEN {"openshift-install"}
    ELSE {"oc", "kubectl"}

-----------------------------------------------------------------------------
(* Filesystem entries *)

Absent == [kind |-> "absent"]
File(content, mode) == [kind |-> "file", content |-> content, mode |-> mode]
Directory(files) == [kind |-> "dir", files |-> files]
Symlink(target) == [kind |-> "link", target |-> target]

\* Content of a downloaded archive: the URL it came from, and whether the
\* whole body reached the disk.
ArchiveContent(url, complete) == [url |-> url, complete |-> complete]
\* Content of a binary: the archive it was extracted from and its member name.
BinaryContent(url, member) == [url |-> url, member |-> member]
\* Content of a file some other program put at an unversioned path.
ForeignContent == [url |-> <<>>, member |-> "foreign"]

EmptyFiles == [m \in {} |-> Absent]

\* Variant of file_exists: os.path.isfile is left out.
file_exists_without_isfile(files, path) == files[path].kind \in {"link", "dir"}

\* os.path.isfile(path) or os.path.islink(path) or os.path.isdir(path)
file_exists(files, path) == files[path].kind \in {"file", "link", "dir"}

\* The state of one running invocation, as the operations see it.
\*   fs      the filesystem
\*   changed self._result['changed']
\*   status  "running", or how the process ended: "exited" | "failed"
\*   msg     the msg given to fail_json
\*   log     the file and network operations performed so far
NoMsg == <<>>

Logged(st, event) == [st EXCEPT !.log = Append(@, event)]
Written(st, path, entry) == [st EXCEPT !.fs[path] = entry]

-----------------------------------------------------------------------------
(* CollectionAnsibleModule *)

\* Variant of _changed: check mode is not looked at, the process goes on.
_changed_without_exit(st, check_mode) == [st EXCEPT !.changed = TRUE]

\* Variant of _changed: in check mode exit_json is called before changed is
\* set, so the process ends with the result as it was.
_changed_exit_first(st, check_mode) ==
    [st EXCEPT !.changed = IF check_mode THEN @ ELSE TRUE,
               !.status = IF check_mode THEN "exited" ELSE @]

\* self._result['changed'] = True; in check mode exit_json ends the process.
_changed(st, check_mode) ==
    [st EXCEPT !.changed = TRUE,
               !.status = IF check_mode THEN "exited" ELSE @]

\* Variant of _fail: the message is recorded and the process goes on.
_fail_returns(st, error) == [st EXCEPT !.msg = error]

\* fail_json(msg=error, **self._result) ends the process.
_fail(st, error) == [st EXCEPT !.status = "failed", !.msg = error]

\* exit_json(**self._result) ends the process.
_exit(st) == [st EXCEPT !.status = "exited"]

-----------------------------------------------------------------------------
(* The network *)

\* What one GET can come to: a response with a status and a reason whose body
\* arrives whole ("none"), a response whose body breaks off while it is copied
\* to the disk ("read"), or no response at all ("connect").
Responses ==
    { [status |-> 200, reason |-> "OK", error |-> "none"],
      [status |-> 200, reason |-> "OK", error |-> "read"],
      [status |-> 404, reason |-> "Not Found", error |-> "none"],
      [status |-> 0, reason |-> "", error |-> "connect"] }

\* The response of a network that serves the archive whole with status 200.
Served == [status |-> 200, reason |-> "OK", error |-> "none"]

DownloadFailedMsg(url, response) ==
    <<"There was a problem downloading file at ", url, ": ",
      response.status, " - ", response.reason>>

IsDownloadFailedMsg(msg) ==
    Len(msg) = 6 /\ msg[1] = "There was a problem downloading file at "

Repr(error) == <<"repr", error>>

-----------------------------------------------------------------------------
(* CliToolsModule: the file operations *)

\* Variant of download_file: the status of the response is not looked at, the
\* body of any response is written to the path.
download_file_any_status(st, path, url, response, check_mode) ==
    IF file_exists(st.fs, path) THEN st
    ELSE LET c == _changed(st, check_mode) IN
         IF c.status # "running" THEN c
         ELSE LET r == Logged(c, <<"GET", url, response>>) IN
              CASE response.error = "connect" -> _fail(r, Repr("MaxRetryError"))
                [] response.error = "read" ->
                       _fail(Written(Logged(r, <<"write", path>>), path,
                                     File(ArchiveContent(url, FALSE), "0o644")),
                             Repr("ProtocolError"))
                [] OTHER ->
                       Written(Logged(r, <<"write", path>>), path,
                               File(ArchiveContent(url, response.status = 200), "0o644"))

\* The try block of download_file.
download_file_try(st, path, url, response, check_mode) ==
    LET c == _changed(st, check_mode) IN
    IF c.status # "running" THEN c
    ELSE LET r == Logged(c, <<"GET", url, response>>) IN
         CASE response.error = "connect" -> _fail(r, Repr("MaxRetryError"))
           [] response.error # "connect" /\ response.status # 200 ->
                  _fail(r, DownloadFailedMsg(url, response))
           [] response.status = 200 /\ response.error = "read" ->
                  _fail(Written(Logged(r, <<"write", path>>), path,
                                File(ArchiveContent(url, FALSE), "0o644")),
                        Repr("ProtocolError"))
           [] OTHER ->
                  Written(Logged(r, <<"write", path>>), path,
                          File(ArchiveContent(url, TRUE), "0o644"))

download_file(st, path, url, response, check_mode) ==
    IF file_exists(st.fs, path) THEN st
    ELSE download_file_try(st, path, url, response, check_mode)

\* The try block of extract_tar_gz.
\* fault: the extraction breaks off (for instance the disk is full) after the
\* directory was made and before the binary was written.
extract_tar_gz_try(st, tar_path, extract_path, fault, check_mode) ==
    LET c == _changed(st, check_mode)
        tar == c.fs[tar_path]
    IN
    IF c.status # "running" THEN c
    ELSE CASE tar.kind # "file" -> _fail(c, Repr("FileNotFoundError"))
           [] tar.kind = "file" /\ ~tar.content.complete ->
                  _fail(Logged(c, <<"open", tar_path>>), Repr("ReadError"))
           [] tar.kind = "file" /\ tar.content.complete /\ fault ->
                  _fail(Written(Logged(c, <<"extract", extract_path>>),
                                extract_path, Directory(EmptyFiles)),
                        Repr("OSError"))
           [] OTHER ->
                  Written(Logged(c, <<"extract", extract_path>>), extract_path,
                          Directory([m \in ArchiveMembers(tar.content.url) |->
                                        File(BinaryContent(tar.content.url, m), "0o755")]))

extract_tar_gz(st, tar_path, extract_path, fault, check_mode) ==
    IF file_exists(st.fs, extract_path) THEN st
    ELSE extract_tar_gz_try(st, tar_path, extract_path, fault, check_mode)

\* Variant of delete_file: the removal is not reported through _changed.
delete_file_unreported(st, path, fault, check_mode) ==
    IF ~file_exists(st.fs, path) THEN st
    ELSE IF fault THEN _fail(st, Repr("PermissionError"))
         ELSE Written(Logged(st, <<"remove", path>>), path, Absent)

\* The try block of delete_file.  os.remove of a path that is no longer there
\* raises FileNotFoundError.
\* fault: the operating system refuses the removal (for instance for lack of
\* permission on the directory).
delete_file_try(st, path, fault, check_mode) ==
    LET c == _changed(st, check_mode) IN
    IF c.status # "running" THEN c
    ELSE IF fault THEN _fail(c, Repr("PermissionError"))
    ELSE CASE c.fs[path].kind = "link" ->
                  Written(Logged(c, <<"unlink", path>>), path, Absent)
           [] c.fs[path].kind = "dir" ->
                  Written(Logged(c, <<"rmtree", path>>), path, Absent)
           [] c.fs[path].kind = "absent" ->
                  _fail(c, Repr("FileNotFoundError"))
           [] OTHER ->
                  Written(Logged(c, <<"remove", path>>), path, Absent)

delete_file(st, path, fault, check_mode) ==
    IF ~file_exists(st.fs, path) THEN st
    ELSE delete_file_try(st, path, fault, check_mode)

\* src is the file named member in the directory src_dir.
\* fault: the operating system refuses the move (for instance for lack of
\* permission on executable_directory).
copy_executable_try(st, src_dir, member, dest, fault, check_mode) ==
    LET c == _changed(st, check_mode)
        dir == c.fs[src_dir]
    IN
    IF c.status # "running" THEN c
    ELSE IF dir.kind # "dir" \/ member \notin DOMAIN dir.files
         THEN _fail(c, Repr("FileNotFoundError"))
         ELSE IF fault THEN _fail(c, Repr("PermissionError"))
         ELSE LET moved == [Written(Logged(c, <<"move", dest>>), dest, dir.files[member])
                              EXCEPT !.fs[src_dir] =
                                  Directory([m \in DOMAIN dir.files \ {member} |->
                                                dir.files[m]])]
              IN  [Logged(moved, <<"chmod", dest>>)
                     EXCEPT !.fs[dest].mode = "0o775"]

copy_executable(st, src_dir, member, dest, fault, check_mode) ==
    IF file_exists(st.fs, dest) THEN st
    ELSE copy_executable_try(st, src_dir, member, dest, fault, check_mode)

\* Variant of create_symlink: existing_target is compared with the link, not
\* with the target, so the symlink is made again on every call.
create_symlink_always(st, link, target, check_mode) ==
    IF st.fs[link].kind \in {"file", "dir"} THEN _fail(st, Repr("OSError"))
    ELSE LET existing_target == IF st.fs[link].kind = "link"
                                THEN st.fs[link].target ELSE <<>>
         IN
         IF existing_target = link THEN st
         ELSE LET c == _changed(st, check_mode) IN
              IF c.status # "running" THEN c
              ELSE LET removed == IF file_exists(c.fs, link)
                                  THEN Written(Logged(c, <<"remove", link>>), link, Absent)
                                  ELSE c
                   IN  Written(Logged(removed, <<"symlink", link>>), link, Symlink(target))

\* Variant of create_symlink: a symlink is made only where nothing is; one that
\* points elsewhere is left as it is.
create_symlink_if_missing(st, link, target, check_mode) ==
    IF st.fs[link].kind \in {"file", "dir"} THEN _fail(st, Repr("OSError"))
    ELSE IF st.fs[link].kind = "link" THEN st
         ELSE LET c == _changed(st, check_mode) IN
              IF c.status # "running" THEN c
              ELSE Written(Logged(c, <<"symlink", link>>), link, Symlink(target))

\* Variant of create_symlink: _changed is called before the targets are
\* compared.
create_symlink_changed_first(st, link, target, check_mode) ==
    IF st.fs[link].kind \in {"file", "dir"} THEN _fail(st, Repr("OSError"))
    ELSE LET existing_target == IF st.fs[link].kind = "link"
                                THEN st.fs[link].target ELSE <<>>
             c == _changed(st, check_mode)
         IN
         IF c.status # "running" THEN c
         ELSE IF existing_target = target THEN c
              ELSE LET removed == IF file_exists(c.fs, link)
                                  THEN Written(Logged(c, <<"remove", link>>), link, Absent)
                                  ELSE c
                   IN  Written(Logged(removed, <<"symlink", link>>), link, Symlink(target))

\* os.readlink gives the target of a symbolic link, raises FileNotFoundError
\* when nothing is at the path and OSError (EINVAL) when the entry is not a
\* symbolic link.  The empty string existing_target starts with is <<>>.
create_symlink(st, link, target, check_mode) ==
    IF st.fs[link].kind \in {"file", "dir"} THEN _fail(st, Repr("OSError"))
    ELSE LET existing_target == IF st.fs[link].kind = "link"
                                THEN st.fs[link].target ELSE <<>>
         IN
         IF existing_target = target THEN st
         ELSE LET c == _changed(st, check_mode) IN
              IF c.status # "running" THEN c
              ELSE LET removed == IF file_exists(c.fs, link)
                                  THEN Written(Logged(c, <<"remove", link>>), link, Absent)
                                  ELSE c
                   IN  Written(Logged(removed, <<"symlink", link>>), link, Symlink(target))

-----------------------------------------------------------------------------
(* CliToolsModule.process_state *)

ToolBlock(tool, scratch, member, release, url) ==
    [tool |-> tool, scratch |-> scratch, member |-> member,
     release |-> release, url |-> url]

\* The release strings that carry the OKD marker ".okd-".
OkdMarked == {"4.9.0-0.okd-2021-11-28-035710"}

\* The client archive URL chosen by the marker in the release string.
OcUrlByMarker(release) ==
    IF release \in OkdMarked
    THEN okd_oc_tar_gz_url(release) ELSE openshift_oc_install_tar_gz_url(release)

\* Variant of PresentBlocks: the URL of the client archive is chosen by the
\* marker in the release string.
PresentBlocks_by_marker(p) ==
    CASE p.install_type = "okd" ->
           << ToolBlock("okd-install", "okd_install", "openshift-install",
                        p.okd_release, okd_install_tar_gz_url(p.okd_release)),
              ToolBlock("oc", "oc", "oc", p.okd_release, OcUrlByMarker(p.okd_release)) >>
      [] p.install_type = "ocp" ->
           << ToolBlock("openshift-install", "openshift_install", "openshift-install",
                        p.ocp_release, openshift_install_tar_gz_url(p.ocp_release)),
              ToolBlock("oc", "oc", "oc", p.ocp_release, OcUrlByMarker(p.ocp_release)) >>
      [] OTHER ->
           << ToolBlock("okd-install", "okd_install", "openshift-install",
                        p.okd_release, okd_install_tar_gz_url(p.okd_release)),
              ToolBlock("openshift-install", "openshift_install", "openshift-install",
                        p.ocp_release, openshift_install_tar_gz_url(p.ocp_release)),
              ToolBlock("oc", "oc", "oc", p.ocp_release, OcUrlByMarker(p.ocp_release)) >>

\* The tools state=present handles, in the order of the code.
PresentBlocks(p) ==
    CASE p.install_type = "okd" ->
           << ToolBlock("okd-install", "okd_install", "openshift-install",
                        p.okd_release, okd_install_tar_gz_url(p.okd_release)),
              ToolBlock("oc", "oc", "oc",
                        p.okd_release, okd_oc_tar_gz_url(p.okd_release)) >>
      [] p.install_type = "ocp" ->
           << ToolBlock("openshift-install", "openshift_install", "openshift-install",
                        p.ocp_release, openshift_install_tar_gz_url(p.ocp_release)),
              ToolBlock("oc", "oc", "oc",
                        p.ocp_release, openshift_oc_install_tar_gz_url(p.ocp_release)) >>
      [] OTHER ->
           << ToolBlock("okd-install", "okd_install", "openshift-install",
                        p.okd_release, okd_install_tar_gz_url(p.okd_release)),
              ToolBlock("openshift-install", "openshift_install", "openshift-install",
                        p.ocp_release, openshift_install_tar_gz_url(p.ocp_release)),
              ToolBlock("oc", "oc", "oc",
                        p.ocp_release, openshift_oc_install_tar_gz_url(p.ocp_release)) >>

\* Variant of AbsentPaths: the unversioned paths are not deleted.
AbsentPaths_without_links(p) ==
    (IF p.install_type \in {"okd", "both"}
     THEN << TmpTarGz("okd_install"), TmpDir("okd_install"),
             VersionedPath("okd-install", p.okd_release),
             VersionedPath("oc", p.okd_release) >>
     ELSE << >>)
    \o
    (IF p.install_type \in {"ocp", "both"}
     THEN << TmpTarGz("openshift_install"), TmpDir("openshift_install"),
             VersionedPath("openshift-install", p.ocp_release),
             VersionedPath("oc", p.ocp_release) >>
     ELSE << >>)
    \o << TmpTarGz("oc"), TmpDir("oc") >>

\* Variant of AbsentPaths: the unversioned paths are deleted whatever symlink is.
AbsentPaths_links_always(p) ==
    (IF p.install_type \in {"okd", "both"}
     THEN << TmpTarGz("okd_install"), TmpDir("okd_install"),
             VersionedPath("okd-install", p.okd_release),
             VersionedPath("oc", p.okd_release),
             UnversionedPath("okd-install"), UnversionedPath("oc") >>
     ELSE << >>)
    \o
    (IF p.install_type \in {"ocp", "both"}
     THEN << TmpTarGz("openshift_install"), TmpDir("openshift_install"),
             VersionedPath("openshift-install", p.ocp_release),
             VersionedPath("oc", p.ocp_release),
             UnversionedPath("openshift-install"), UnversionedPath("oc") >>
     ELSE << >>)
    \o << TmpTarGz("oc"), TmpDir("oc") >>

\* The paths state=absent deletes, in the order of the code.
AbsentPaths(p) ==
    (IF p.install_type \in {"okd", "both"}
     THEN << TmpTarGz("okd_install"), TmpDir("okd_install"),
             VersionedPath("okd-install", p.okd_release),
             VersionedPath("oc", p.okd_release) >>
          \o (IF p.symlink
              THEN << UnversionedPath("okd-install"), UnversionedPath("oc") >>
              ELSE << >>)
     ELSE << >>)
    \o
    (IF p.install_type \in {"ocp", "both"}
     THEN << TmpTarGz("openshift_install"), TmpDir("openshift_install"),
             VersionedPath("openshift-install", p.ocp_release),
             VersionedPath("oc", p.ocp_release) >>
          \o (IF p.symlink
              THEN << UnversionedPath("openshift-install"), UnversionedPath("oc") >>
              ELSE << >>)
     ELSE << >>)
    \o << TmpTarGz("oc"), TmpDir("oc") >>

\* module.params and module.check_mode.  The release the install_type does not
\* use is not given (required_if asks for one of them, for both with "both").
\* okd_release and ocp_release name releases of two distributions: with "both"
\* they are two different strings.
NotGiven == "None"

Params ==
    { p \in [symlink : BOOLEAN, install_type : {"okd", "ocp", "both"},
             okd_release : Releases \cup {NotGiven},
             ocp_release : Releases \cup {NotGiven},
             state : {"present", "absent"}, check_mode : BOOLEAN] :
        /\ (p.okd_release = NotGiven) = (p.install_type = "ocp")
        /\ (p.ocp_release = NotGiven) = (p.install_type = "okd")
        /\ p.okd_release # p.ocp_release }

-----------------------------------------------------------------------------
(* The state machine *)

VARIABLES
    fs,       \* the filesystem: [Paths -> entries]
    params,   \* module.params and module.check_mode of the current invocation
    pc,       \* where the current invocation is in process_state
    changed,  \* self._result['changed']
    status,   \* "idle" (no invocation yet) | "running" | "exited" | "failed"
    msg,      \* msg of fail_json
    log,      \* operations the current invocation has performed
    fs0,      \* the filesystem when the current invocation started
    prev,     \* how the invocation before the current one went
    runs,     \* invocations started so far
    procs     \* the invocations that run at the same time (SpecConc)

vars == <<fs, params, pc, changed, status, msg, log, fs0, prev, runs, procs>>

\* Two invocations of the module started by two plays on the same host.
Procs == {1, 2}

\* An invocation that has not started: its place in process_state, its
\* result, and whether no other invocation ran while it did.
NoProc ==
    [pc |-> [i |-> 0, step |-> "none"], changed |-> FALSE, status |-> "idle",
     msg |-> NoMsg, alone |-> TRUE]

NoParams ==
    [symlink |-> FALSE, install_type |-> "okd",
     okd_release |-> NotGiven, ocp_release |-> NotGiven,
     state |-> "none", check_mode |-> FALSE]

\* What is kept of the invocation before the current one when the current one
\* repeats its parameters (state aside):
\*   state, status, changed   its state parameter, how it ended, what it reported
\*   clean                    it started with none of its tools installed and no
\*                            scratch files
\* and when the current one is outside check mode and the one before it was the
\* same invocation in check mode, started from the filesystem the current one
\* starts from (dry).
NoPrev ==
    [state |-> "none", status |-> "idle", changed |-> FALSE,
     repeated |-> FALSE, clean |-> FALSE, dry |-> FALSE]

\* The versioned paths state=present with parameters p installs.
RequestedPaths(p) ==
    {VersionedPath(PresentBlocks(p)[i].tool, PresentBlocks(p)[i].release) :
        i \in 1..Len(PresentBlocks(p))}

\* The scratch paths state=present with parameters p uses.
RequestedScratch(p) ==
    UNION {{TmpTarGz(PresentBlocks(p)[i].scratch), TmpDir(PresentBlocks(p)[i].scratch)} :
              i \in 1..Len(PresentBlocks(p))}

NotInstalled(files, p) ==
    /\ \A path \in RequestedPaths(p) : files[path] = Absent
    /\ \A path \in ScratchPaths : files[path] = Absent

\* Before the first invocation nothing of the tools is on the disk; some other
\* program may have put a regular file at the unversioned path of a tool.
Init ==
    /\ \E foreign \in {{}, {UnversionedPath("okd-install")}} :
          fs = [p \in Paths |-> IF p \in foreign
                                THEN File(ForeignContent, "0o755") ELSE Absent]
    /\ params = NoParams
    /\ pc = [i |-> 0, step |-> "none"]
    /\ changed = FALSE
    /\ status = "idle"
    /\ msg = NoMsg
    /\ log = << >>
    /\ fs0 = << >>
    /\ prev = NoPrev
    /\ runs = 0
    /\ procs = [q \in Procs |-> NoProc]

Running == status = "running"

State == [fs |-> fs, changed |-> changed, status |-> status, msg |-> msg, log |-> log]

\* The faults a removal can meet: the scratch files under /tmp are the
\* process's own, written moments before; a path in executable_directory may
\* belong to another user.
DeleteFaults(path) == IF path \in ScratchPaths THEN {FALSE} ELSE BOOLEAN

\* The block of process_state the invocation is in.
Block == PresentBlocks(params)[pc.i]

\* Where control goes after the last operation of block i / after delete i.
AfterBlock(i) ==
    IF i < Len(PresentBlocks(params))
    THEN [i |-> i + 1, step |-> "check"] ELSE [i |-> i, step |-> "exit"]

AfterDelete(i) ==
    IF i < Len(AbsentPaths(params))
    THEN [i |-> i + 1, step |-> "delete"] ELSE [i |-> i, step |-> "exit"]

\* The state after an operation: a process that ended stays where it ended.
Becomes(st, next) ==
    /\ fs' = st.fs
    /\ changed' = st.changed
    /\ status' = st.status
    /\ msg' = st.msg
    /\ log' = st.log
    /\ pc' = IF st.status = "running" THEN next ELSE pc
    /\ UNCHANGED <<params, fs0, prev, runs, procs>>

\* main(): a new process; the one before it has ended.
Start ==
    /\ status \in {"idle", "exited", "failed"}
    /\ runs < MaxRuns
    /\ \E p \in Params :
          /\ params' = p
          /\ pc' = IF p.state = "present"
                   THEN [i |-> 1, step |-> "check"] ELSE [i |-> 1, step |-> "delete"]
          /\ prev' = IF [p EXCEPT !.state = params.state] = params
                     THEN [state |-> params.state, status |-> status,
                           changed |-> changed, repeated |-> TRUE,
                           clean |-> NotInstalled(fs0, params), dry |-> FALSE]
                     ELSE IF ~p.check_mode /\ [p EXCEPT !.check_mode = TRUE] = params
                                           /\ fs = fs0
                     THEN [state |-> params.state, status |-> status,
                           changed |-> changed, repeated |-> FALSE,
                           clean |-> FALSE, dry |-> TRUE]
                     ELSE NoPrev
    /\ fs0' = fs
    /\ changed' = FALSE
    /\ status' = "running"
    /\ msg' = NoMsg
    /\ log' = << >>
    /\ runs' = runs + 1
    /\ UNCHANGED <<fs, procs>>

\* if not self.file_exists(f"{self.executable_directory}/{tool}-{release}"):
CheckInstalled ==
    /\ Running /\ pc.step = "check"
    /\ pc' = [pc EXCEPT !.step =
                 IF file_exists(fs, VersionedPath(Block.tool, Block.release))
                 THEN "symlink" ELSE "download"]
    /\ UNCHANGED <<fs, params, changed, status, msg, log, fs0, prev, runs, procs>>

DownloadFile ==
    /\ Running /\ pc.step = "download"
    /\ \E response \in Responses :
          Becomes(download_file(State, TmpTarGz(Block.scratch), Block.url,
                                response, params.check_mode),
                  [pc EXCEPT !.step = "extract"])

ExtractTarGz ==
    /\ Running /\ pc.step = "extract"
    /\ \E fault \in BOOLEAN :
          Becomes(extract_tar_gz(State, TmpTarGz(Block.scratch), TmpDir(Block.scratch),
                                 fault, params.check_mode),
                  [pc EXCEPT !.step = "copy"])

CopyExecutable ==
    /\ Running /\ pc.step = "copy"
    /\ \E fault \in BOOLEAN :
          Becomes(copy_executable(State, TmpDir(Block.scratch), Block.member,
                                  VersionedPath(Block.tool, Block.release),
                                  fault, params.check_mode),
                  [pc EXCEPT !.step = "symlink"])

\* if self.symlink: self.create_symlink(link=..., target=...)
CreateSymlink ==
    /\ Running /\ pc.step = "symlink"
    /\ Becomes(IF params.symlink
               THEN create_symlink(State, UnversionedPath(Block.tool),
                                   VersionedPath(Block.tool, Block.release),
                                   params.check_mode)
               ELSE State,
               [pc EXCEPT !.step = "delete_tar_gz"])

DeleteTarGz ==
    /\ Running /\ pc.step = "delete_tar_gz"
    /\ \E fault \in DeleteFaults(TmpTarGz(Block.scratch)) :
          Becomes(delete_file(State, TmpTarGz(Block.scratch), fault, params.check_mode),
                  [pc EXCEPT !.step = "delete_dir"])

DeleteDir ==
    /\ Running /\ pc.step = "delete_dir"
    /\ \E fault \in DeleteFaults(TmpDir(Block.scratch)) :
          Becomes(delete_file(State, TmpDir(Block.scratch), fault, params.check_mode),
                  AfterBlock(pc.i))

\* state == 'absent': the next delete_file of the list.
DeleteAbsent ==
    /\ Running /\ pc.step = "delete"
    /\ \E fault \in DeleteFaults(AbsentPaths(params)[pc.i]) :
          Becomes(delete_file(State, AbsentPaths(params)[pc.i], fault, params.check_mode),
                  AfterDelete(pc.i))

\* self._exit() at the end of process_state.
Exit ==
    /\ Running /\ pc.step = "exit"
    /\ Becomes(_exit(State), pc)

Next ==
    \/ Start
    \/ CheckInstalled
    \/ DownloadFile
    \/ ExtractTarGz
    \/ CopyExecutable
    \/ CreateSymlink
    \/ DeleteTarGz
    \/ DeleteDir
    \/ DeleteAbsent
    \/ Exit

Spec == Init /\ [][Next]_vars

-----------------------------------------------------------------------------
(* Two invocations at the same time *)

\* The parameters of the two invocations: the same state=present invocation
\* for one distribution, outside check mode.
ConcParams ==
    {p \in Params : p.state = "present" /\ ~p.check_mode /\ p.install_type # "both"}

\* Both invocations are started on a filesystem with nothing of the tools on
\* it, with the same parameters.
InitConc ==
    /\ fs = [p \in Paths |-> Absent]
    /\ params \in ConcParams
    /\ pc = [i |-> 0, step |-> "none"]
    /\ changed = FALSE
    /\ status = "idle"
    /\ msg = NoMsg
    /\ log = << >>
    /\ fs0 = << >>
    /\ prev = NoPrev
    /\ runs = 0
    /\ procs = [q \in Procs |-> NoProc]

\* The operations of the invocations are not kept.
ConcState(q) ==
    [fs |-> fs, changed |-> procs[q].changed, status |-> procs[q].status,
     msg |-> procs[q].msg, log |-> << >>]

ConcBlock(q) == PresentBlocks(params)[procs[q].pc.i]

ConcAt(q, steps) == procs[q].status = "running" /\ procs[q].pc.step \in steps

\* The state after an operation of invocation q.
ConcBecomes(q, st, next) ==
    /\ fs' = st.fs
    /\ procs' = [procs EXCEPT ![q] =
                    [@ EXCEPT !.changed = st.changed, !.status = st.status,
                              !.msg = st.msg,
                              !.pc = IF st.status = "running" THEN next ELSE @]]
    /\ UNCHANGED <<params, pc, changed, status, msg, log, fs0, prev, runs>>

\* The steps of a block that are a file_exists of a path, and the path.
ExistsSteps == {"check", "download", "extract", "copy", "delete_tar_gz", "delete_dir"}

CheckedPath(step, b) ==
    CASE step \in {"check", "copy"} -> VersionedPath(b.tool, b.release)
      [] step \in {"download", "delete_tar_gz"} -> TmpTarGz(b.scratch)
      [] OTHER -> TmpDir(b.scratch)

\* Variant of Skips: delete_file does not look whether the path exists.
Skips_delete_unchecked(step, files, b) ==
    /\ step \notin {"delete_tar_gz", "delete_dir"}
    /\ file_exists(files, CheckedPath(step, b))

\* Whether the file_exists of the step makes the invocation skip what the step
\* guards: the install, download, extraction and move when the path exists,
\* the removal when it does not.
Skips(step, files, b) ==
    IF step \in {"delete_tar_gz", "delete_dir"}
    THEN ~file_exists(files, CheckedPath(step, b))
    ELSE file_exists(files, CheckedPath(step, b))

\* Where control goes from the file_exists of a step.
AfterExists(step, i, skips) ==
    CASE step = "check" ->
             [i |-> i, step |-> IF skips THEN "symlink" ELSE "download"]
      [] step = "download" ->
             [i |-> i, step |-> IF skips THEN "extract" ELSE "download_try"]
      [] step = "extract" ->
             [i |-> i, step |-> IF skips THEN "copy" ELSE "extract_try"]
      [] step = "copy" ->
             [i |-> i, step |-> IF skips THEN "symlink" ELSE "copy_try"]
      [] step = "delete_tar_gz" ->
             [i |-> i, step |-> IF skips THEN "delete_dir" ELSE "delete_tar_gz_try"]
      [] OTHER ->
             IF skips THEN AfterBlock(i) ELSE [i |-> i, step |-> "delete_dir_try"]

\* main() of invocation q.  An invocation is alone when no other one is
\* running while it is.
ConcStart(q) ==
    /\ procs[q].status = "idle"
    /\ procs' = [r \in Procs |->
                    IF r = q
                    THEN [NoProc EXCEPT
                            !.status = "running",
                            !.pc = [i |-> 1, step |-> "check"],
                            !.alone = \A o \in Procs \ {q} : procs[o].status # "running"]
                    ELSE IF procs[r].status = "running"
                         THEN [procs[r] EXCEPT !.alone = FALSE]
                         ELSE procs[r]]
    /\ UNCHANGED <<fs, params, pc, changed, status, msg, log, fs0, prev, runs>>

\* A file_exists of invocation q.
ConcExists(q) ==
    /\ ConcAt(q, ExistsSteps)
    /\ procs' = [procs EXCEPT ![q].pc =
                    AfterExists(@.step, @.i, Skips(@.step, fs, ConcBlock(q)))]
    /\ UNCHANGED <<fs, params, pc, changed, status, msg, log, fs0, prev, runs>>

\* The GET and the write of the archive; the network serves it.
ConcDownload(q) ==
    /\ ConcAt(q, {"download_try"})
    /\ ConcBecomes(q, download_file_try(ConcState(q), TmpTarGz(ConcBlock(q).scratch),
                                        ConcBlock(q).url, Served, FALSE),
                   [procs[q].pc EXCEPT !.step = "extract"])

ConcExtract(q) ==
    /\ ConcAt(q, {"extract_try"})
    /\ ConcBecomes(q, extract_tar_gz_try(ConcState(q), TmpTarGz(ConcBlock(q).scratch),
                                         TmpDir(ConcBlock(q).scratch), FALSE, FALSE),
                   [procs[q].pc EXCEPT !.step = "copy"])

ConcMove(q) ==
    /\ ConcAt(q, {"copy_try"})
    /\ ConcBecomes(q, copy_executable_try(ConcState(q), TmpDir(ConcBlock(q).scratch),
                                          ConcBlock(q).member,
                                          VersionedPath(ConcBlock(q).tool,
                                                        ConcBlock(q).release),
                                          FALSE, FALSE),
                   [procs[q].pc EXCEPT !.step = "symlink"])

ConcSymlink(q) ==
    /\ ConcAt(q, {"symlink"})
    /\ ConcBecomes(q, IF params.symlink
                      THEN create_symlink(ConcState(q), UnversionedPath(ConcBlock(q).tool),
                                          VersionedPath(ConcBlock(q).tool,
                                                        ConcBlock(q).release),
                                          FALSE)
                      ELSE ConcState(q),
                   [procs[q].pc EXCEPT !.step = "delete_tar_gz"])

ConcDelete(q) ==
    /\ ConcAt(q, {"delete_tar_gz_try", "delete_dir_try"})
    /\ IF procs[q].pc.step = "delete_tar_gz_try"
       THEN ConcBecomes(q, delete_file_try(ConcState(q), TmpTarGz(ConcBlock(q).scratch),
                                           FALSE, FALSE),
                        [procs[q].pc EXCEPT !.step = "delete_dir"])
       ELSE ConcBecomes(q, delete_file_try(ConcState(q), TmpDir(ConcBlock(q).scratch),
                                           FALSE, FALSE),
                        AfterBlock(procs[q].pc.i))

ConcExit(q) ==
    /\ ConcAt(q, {"exit"})
    /\ ConcBecomes(q, _exit(ConcState(q)), procs[q].pc)

NextConc ==
    \E q \in Procs :
        \/ ConcStart(q)
        \/ ConcExists(q)
        \/ ConcDownload(q)
        \/ ConcExtract(q)
        \/ ConcMove(q)
        \/ ConcSymlink(q)
        \/ ConcDelete(q)
        \/ ConcExit(q)

SpecConc == InitConc /\ [][NextConc]_vars

-----------------------------------------------------------------------------
(* Properties *)

\* The current invocation is a state=present (state=absent) run outside check mode.
PresentRun == status # "idle" /\ params.state = "present" /\ ~params.check_mode
AbsentRun == status # "idle" /\ params.state = "absent" /\ ~params.check_mode

\* The invocation before the current one had the same parameters (state
\* aside), was a state=present run and completed without failure.
AfterInstall == prev.repeated /\ prev.state = "present" /\ prev.status = "exited"

\* The unversioned paths of the tools state=present with parameters p installs.
RequestedLinks(p) ==
    {UnversionedPath(PresentBlocks(p)[i].tool) : i \in 1..Len(PresentBlocks(p))}

\* The current invocation has performed operation op on path (or URL) target.
Performed(op, target) ==
    \E i \in 1..Len(log) : log[i][1] = op /\ log[i][2] = target

\* C1: Idempotence of ensure-present.  A state=present run that completed
\* after starting with none of its tools installed and no scratch files
\* reported changed=true; and a state=present run that repeats the parameters
\* of a completed state=present run (the second run, and every further one)
\* does not fail, reports changed=false and leaves the filesystem as the run
\* before it left it.
C1_Idempotent ==
    (PresentRun /\ AfterInstall) =>
        /\ prev.clean => prev.changed
        /\ status # "failed"
        /\ ~changed
        /\ fs = fs0

\* The second of two identical state=present runs has completed, the first
\* having installed all three tools and their symlinks from nothing.
C1_Witness ==
    /\ PresentRun /\ AfterInstall /\ prev.clean /\ status = "exited"
    /\ params.install_type = "both" /\ params.symlink
    /\ \A path \in RequestedPaths(params) : fs[path].kind = "file"
    /\ \A path \in RequestedLinks(params) : fs[path].kind = "link"

\* C2: Round trip.  When a state=absent run has completed that repeats the
\* parameters of a completed state=present run, none of the versioned
\* artifacts of that install, none of its scratch archives and directories
\* and, with symlink=true, none of its unversioned symlinks is on the disk.
C2_RoundTrip ==
    (AbsentRun /\ AfterInstall /\ status = "exited") =>
        /\ \A path \in RequestedPaths(params) \cup RequestedScratch(params) :
              fs[path] = Absent
        /\ params.symlink => \A path \in RequestedLinks(params) : fs[path] = Absent

\* An uninstall has completed after an install that had put three tools and
\* their symlinks on the disk.
C2_Witness ==
    /\ AbsentRun /\ AfterInstall /\ status = "exited"
    /\ params.install_type = "both" /\ params.symlink
    /\ \A path \in RequestedPaths(params) : fs0[path].kind = "file"
    /\ \A path \in RequestedLinks(params) : fs0[path].kind = "link"
    /\ \A path \in RequestedPaths(params) \cup RequestedLinks(params) : fs[path] = Absent

\* The versioned artifacts and the symlinks of the tools a state=absent run
\* with parameters p is about.
ArtifactsAndLinks(p) ==
    LET paths == AbsentPaths([p EXCEPT !.symlink = TRUE])
    IN  {paths[i] : i \in 1..Len(paths)} \ ScratchPaths

\* C3: Absent-on-absent.  A state=absent run that started with none of the
\* versioned artifacts and symlinks of its tools on the disk does not fail,
\* reports changed=false and mutates nothing.
C3_AbsentOnAbsent ==
    (AbsentRun /\ \A path \in ArtifactsAndLinks(params) : fs0[path] = Absent) =>
        /\ status # "failed"
        /\ ~changed
        /\ fs = fs0

\* The operations that fetch, unpack and install the tool of block b.
Installs(b) ==
    \/ Performed("GET", b.url)
    \/ Performed("write", TmpTarGz(b.scratch))
    \/ Performed("open", TmpTarGz(b.scratch))
    \/ Performed("extract", TmpDir(b.scratch))
    \/ Performed("move", VersionedPath(b.tool, b.release))
    \/ Performed("chmod", VersionedPath(b.tool, b.release))

\* A tool of the current state=present run whose versioned artifact was on
\* the disk when the run started.
InstalledBefore(b) ==
    /\ status # "idle" /\ params.state = "present"
    /\ fs0[VersionedPath(b.tool, b.release)] # Absent

\* C4: The versioned artifact is write-once.  No step of a state=present run
\* changes a versioned path that exists, and a run that found the versioned
\* artifact of a tool on the disk when it started performs no download, no
\* extraction and no move for that tool.
C4_WriteOnce ==
    /\ [][(status = "running" /\ params.state = "present") =>
             \A path \in VersionedPaths : fs[path] # Absent => fs'[path] = fs[path]]_vars
    /\ [](\A i \in 1..Len(PresentBlocks(params)) :
             InstalledBefore(PresentBlocks(params)[i]) => ~Installs(PresentBlocks(params)[i]))

\* A run has completed that found its first tool installed and went on to
\* install its second one.
C4_Witness ==
    /\ PresentRun /\ status = "exited" /\ Len(PresentBlocks(params)) = 2
    /\ InstalledBefore(PresentBlocks(params)[1])
    /\ ~InstalledBefore(PresentBlocks(params)[2])
    /\ Installs(PresentBlocks(params)[2])
    /\ fs[VersionedPath(PresentBlocks(params)[1].tool, PresentBlocks(params)[1].release)]
         = fs0[VersionedPath(PresentBlocks(params)[1].tool, PresentBlocks(params)[1].release)]

\* The unversioned path of block b was, when the run started, a symlink to
\* something other than the versioned path of b.
StaleLink(b) ==
    /\ fs0[UnversionedPath(b.tool)].kind = "link"
    /\ fs0[UnversionedPath(b.tool)].target # VersionedPath(b.tool, b.release)

\* C5: Symlink repair.  When a state=present run with symlink=true has
\* completed, every unversioned path that was a symlink to another target is
\* a symlink to the versioned artifact, and the run reports changed=true.
C5_SymlinkRepair ==
    (PresentRun /\ params.symlink /\ status = "exited") =>
        \A i \in 1..Len(PresentBlocks(params)) :
            StaleLink(PresentBlocks(params)[i]) =>
                /\ fs[UnversionedPath(PresentBlocks(params)[i].tool)]
                     = Symlink(VersionedPath(PresentBlocks(params)[i].tool,
                                             PresentBlocks(params)[i].release))
                /\ changed

\* A run has completed in which oc pointed to the binary of another release.
C5_Witness ==
    /\ PresentRun /\ params.symlink /\ status = "exited"
    /\ \E i \in 1..Len(PresentBlocks(params)) :
          /\ PresentBlocks(params)[i].tool = "oc"
          /\ StaleLink(PresentBlocks(params)[i])
          /\ fs[UnversionedPath("oc")]
               = Symlink(VersionedPath("oc", PresentBlocks(params)[i].release))
          /\ Performed("remove", UnversionedPath("oc"))

\* The unversioned path of block b is a symlink to the versioned path of b.
LinkCorrect(files, b) ==
    files[UnversionedPath(b.tool)] = Symlink(VersionedPath(b.tool, b.release))

\* Every tool of the run is installed, its symlink is correct (when symlinks
\* are asked for) and none of its scratch files exists, in the filesystem files.
Converged(files, p) ==
    /\ \A path \in RequestedPaths(p) : files[path] # Absent
    /\ \A path \in RequestedScratch(p) : files[path] = Absent
    /\ p.symlink => \A i \in 1..Len(PresentBlocks(p)) : LinkCorrect(files, PresentBlocks(p)[i])

\* C6: Symlink convergence.  The symlink step of a tool whose unversioned path
\* already is a symlink to the versioned artifact changes neither the
\* filesystem nor the changed flag and performs no remove and no symlink; and
\* a state=present run that starts converged does not fail and reports
\* changed=false.
C6_SymlinkConvergence ==
    /\ [][(status = "running" /\ pc.step = "symlink" /\ params.symlink
             /\ LinkCorrect(fs, Block)) =>
             (fs' = fs /\ changed' = changed /\ log' = log /\ status' = "running")]_vars
    /\ []((PresentRun /\ Converged(fs0, params)) => (~changed /\ status # "failed"))

\* A run with symlink=true that started converged has completed.
C6_Witness ==
    /\ PresentRun /\ params.symlink /\ Converged(fs0, params) /\ status = "exited"
    /\ ~changed

\* C7: Scratch cleanup regardless of outcome.  When a state=present run has
\* ended, by completing or by failing, the scratch archive and the scratch
\* directory of every requested tool do not exist.
C7_ScratchCleanup ==
    (PresentRun /\ status \in {"exited", "failed"}) =>
        \A path \in RequestedScratch(params) : fs[path] = Absent

\* The i-th operation of the run was a GET answered with a status other than 200.
Not200(i) ==
    /\ log[i][1] = "GET"
    /\ log[i][3].error # "connect"
    /\ log[i][3].status # 200

\* C8: A failed download never promotes a partial file.  When a GET of the
\* current run was answered with a status other than 200, the run has failed
\* with the message that carries that status and reason, the GET is the last
\* operation it performed, no scratch archive was written, and the versioned
\* path of the tool is as it was when the run started.
C8_DownloadFailure ==
    status # "idle" =>
        \A i \in 1..Len(log) :
            Not200(i) =>
                /\ status = "failed"
                /\ msg = DownloadFailedMsg(log[i][2], log[i][3])
                /\ i = Len(log)
                /\ Block.url = log[i][2]
                /\ fs[TmpTarGz(Block.scratch)] = Absent
                /\ fs[VersionedPath(Block.tool, Block.release)]
                     = fs0[VersionedPath(Block.tool, Block.release)]
                /\ fs[VersionedPath(Block.tool, Block.release)] = Absent

\* The download of the second tool of a run was answered with 404 after the
\* first tool had been installed.
C8_Witness ==
    /\ PresentRun /\ status = "failed" /\ pc.i = 2
    /\ Len(log) > 0 /\ Not200(Len(log))
    /\ IsDownloadFailedMsg(msg) /\ msg[4] = 404
    /\ fs0[VersionedPath(PresentBlocks(params)[1].tool, PresentBlocks(params)[1].release)]
         = Absent
    /\ fs[VersionedPath(PresentBlocks(params)[1].tool, PresentBlocks(params)[1].release)].kind
         = "file"

\* C9: Fail-fast.  Once fail_json has been given a message the invocation is
\* over: until the next invocation starts, no step changes the filesystem,
\* performs an operation (a retry included) or touches the result.
C9_FailFast ==
    [][(msg # NoMsg /\ runs' = runs) =>
          (status = "failed" /\ UNCHANGED <<fs, log, changed, status, msg, pc, params>>)]_vars

\* A run for three tools has failed in its first tool after the download (in
\* the extraction, the move or the symlink); the two tools after it were not
\* touched.
C9_Witness ==
    /\ PresentRun /\ status = "failed" /\ msg # NoMsg
    /\ Len(PresentBlocks(params)) = 3 /\ pc.i = 1
    /\ pc.step \in {"extract", "copy", "symlink"}
    /\ \A i \in 2..3 :
          /\ ~Installs(PresentBlocks(params)[i])
          /\ fs[VersionedPath(PresentBlocks(params)[i].tool,
                              PresentBlocks(params)[i].release)] = Absent

\* The path is in the state the running invocation wants it in: an existing
\* versioned artifact or a correct symlink of a state=present run, a missing
\* path of a state=absent run.
InDesiredState(path) ==
    IF params.state = "present"
    THEN \/ path \in RequestedPaths(params) /\ fs[path] # Absent
         \/ /\ params.symlink
            /\ \E i \in 1..Len(PresentBlocks(params)) :
                  /\ path = UnversionedPath(PresentBlocks(params)[i].tool)
                  /\ LinkCorrect(fs, PresentBlocks(params)[i])
    ELSE /\ \E i \in 1..Len(AbsentPaths(params)) : path = AbsentPaths(params)[i]
         /\ fs[path] = Absent

\* C10: The changed flag tracks mutations.  Outside check mode every step that
\* changes the filesystem leaves changed=true, a run that completes with
\* changed=false has left the filesystem as it found it, and no step changes
\* a path that is in its desired state.
C10_ChangedTracksMutations ==
    /\ [][(status = "running" /\ ~params.check_mode /\ fs' # fs) => changed']_vars
    /\ []((status = "exited" /\ ~params.check_mode /\ ~changed) => fs = fs0)
    /\ [][(status = "running" /\ ~params.check_mode) =>
             \A path \in Paths : fs'[path] # fs[path] => ~InDesiredState(path)]_vars

\* A run has completed that found a tool installed and its scratch directory
\* left behind: it left the artifact alone, deleted the directory and
\* reported changed=true.
C10_Witness ==
    /\ PresentRun /\ status = "exited" /\ changed
    /\ \E i \in 1..Len(PresentBlocks(params)) :
          /\ InstalledBefore(PresentBlocks(params)[i])
          /\ fs[VersionedPath(PresentBlocks(params)[i].tool, PresentBlocks(params)[i].release)]
               = fs0[VersionedPath(PresentBlocks(params)[i].tool,
                                   PresentBlocks(params)[i].release)]
          /\ fs0[TmpDir(PresentBlocks(params)[i].scratch)] # Absent
          /\ fs[TmpDir(PresentBlocks(params)[i].scratch)] = Absent

\* Something other than the symlink to the versioned path of block b was at
\* the unversioned path of b when the run started.
WrongEntry(b) ==
    /\ fs0[UnversionedPath(b.tool)] # Absent
    /\ ~LinkCorrect(fs0, b)

\* C11: The symlink step replaces whatever is at the link path.  In a
\* state=present run with symlink=true, the symlink step of a tool whose
\* unversioned path held another entry (a regular file included) does not
\* fail, and when the run has completed the path is the symlink to the
\* versioned artifact.
C11_SymlinkReplaces ==
    (PresentRun /\ params.symlink) =>
        \A i \in 1..Len(PresentBlocks(params)) :
            WrongEntry(PresentBlocks(params)[i]) =>
                /\ ~(status = "failed" /\ pc.i = i /\ pc.step = "symlink")
                /\ status = "exited" => LinkCorrect(fs, PresentBlocks(params)[i])

\* C12: Ensure-absent effect and frame.  When a state=absent run has
\* completed, the scratch archive, the scratch directory and the versioned
\* artifact of every selected tool do not exist; with symlink=true the
\* unversioned paths of the selected tools do not exist either, and with
\* symlink=false every unversioned path is as it was when the run started
\* and no removal was performed on it.
C12_AbsentEffect ==
    (AbsentRun /\ status = "exited") =>
        /\ \A path \in RequestedScratch(params) : fs[path] = Absent
        /\ \A path \in ArtifactsAndLinks(params) \cap VersionedPaths : fs[path] = Absent
        /\ params.symlink => \A path \in RequestedLinks(params) : fs[path] = Absent
        /\ ~params.symlink =>
              \A path \in UnversionedPaths :
                  /\ fs[path] = fs0[path]
                  /\ ~Performed("unlink", path)
                  /\ ~Performed("remove", path)

\* An uninstall with symlink=false has completed that removed a versioned
\* artifact and left the symlink to it in place.
C12_Witness ==
    /\ AbsentRun /\ status = "exited" /\ ~params.symlink
    /\ \E t \in Tools, r \in Releases :
          /\ fs0[UnversionedPath(t)] = Symlink(VersionedPath(t, r))
          /\ fs0[VersionedPath(t, r)].kind = "file"
          /\ fs[VersionedPath(t, r)] = Absent
          /\ fs[UnversionedPath(t)] = fs0[UnversionedPath(t)]

\* The URL is that of a client archive (of either family).
ClientArchive(url) ==
    url[3] \in {"/openshift-client-linux-", "/openshift-client-linux.tar.gz"}

\* The i-th operation of the run was a GET.
IsGet(i) == log[i][1] = "GET"

\* C14 as claimed: URL resolution is a function of (tool, version) only.  Every
\* client archive the run requests is the OKD client archive of its release
\* when the release carries the OKD marker and the mirror-hosted one
\* otherwise, and every other archive it requests is an installer archive of
\* its release.
C14_UrlByVersion ==
    status # "idle" =>
        \A i \in 1..Len(log) :
            IsGet(i) =>
                IF ClientArchive(log[i][2])
                THEN log[i][2] = OcUrlByMarker(log[i][2][2])
                ELSE log[i][2] \in {okd_install_tar_gz_url(log[i][2][2]),
                                   openshift_install_tar_gz_url(log[i][2][2])}

\* The URL process_state requests for a tool: chosen by install_type, from
\* the release parameter of that family.
UrlByInstallType(tool, p) ==
    CASE tool = "okd-install" -> okd_install_tar_gz_url(p.okd_release)
      [] tool = "openshift-install" -> openshift_install_tar_gz_url(p.ocp_release)
      [] OTHER -> IF p.install_type = "okd"
                  THEN okd_oc_tar_gz_url(p.okd_release)
                  ELSE openshift_oc_install_tar_gz_url(p.ocp_release)

\* C14 as amended: the URL requested for a tool is chosen by install_type and
\* the release parameter of that family.  Every client archive the run
\* requests is the OKD client archive of okd_release when install_type is okd
\* and the mirror-hosted client archive of ocp_release when it is ocp or
\* both; every other archive it requests is the installer archive of one of
\* its installer tools.  The marker in the release string plays no part.
C14_UrlByInstallType ==
    status # "idle" =>
        \A i \in 1..Len(log) :
            IsGet(i) =>
                IF ClientArchive(log[i][2])
                THEN log[i][2] = UrlByInstallType("oc", params)
                ELSE \E j \in 1..Len(PresentBlocks(params)) :
                        /\ PresentBlocks(params)[j].tool # "oc"
                        /\ log[i][2] = UrlByInstallType(PresentBlocks(params)[j].tool, params)

\* A run with install_type=ocp and a release that carries the OKD marker has
\* requested the mirror-hosted client archive of that release.
C14_Witness ==
    /\ PresentRun /\ params.install_type = "ocp" /\ params.ocp_release \in OkdMarked
    /\ Performed("GET", openshift_oc_install_tar_gz_url(params.ocp_release))

\* C17: Check mode is side-effect free.  At every point of a check-mode
\* invocation (present or absent, any install_type) the filesystem is the one
\* the invocation started with and no file or network operation, a GET
\* included, was performed; and once changed is set the process has exited, at
\* the step that set it.
C17_CheckModeFrame ==
    (status # "idle" /\ params.check_mode) =>
        /\ fs = fs0
        /\ log = << >>
        /\ changed => status = "exited"

\* A check-mode state=present run has exited at the download of its first
\* tool, which is not installed; a check-mode state=absent run has exited at
\* the removal of an installed artifact.
C17_Witness ==
    /\ params.check_mode /\ status = "exited" /\ changed
    /\ \/ /\ params.state = "present" /\ pc = [i |-> 1, step |-> "download"]
          /\ fs[TmpTarGz(PresentBlocks(params)[1].scratch)] = Absent
       \/ /\ params.state = "absent" /\ pc.step = "delete"
          /\ fs[AbsentPaths(params)[pc.i]].kind = "file"

C15_InstalledContent ==
    (PresentRun /\ status = "exited") =>
        \A i \in 1..Len(PresentBlocks(params)) :
            LET b == PresentBlocks(params)[i]
                dest == VersionedPath(b.tool, b.release)
            IN  fs0[dest] = Absent =>
                    /\ fs[dest].kind = "file"
                    /\ fs[dest].content = BinaryContent(b.url, b.member)

\* One block of process_state run to its end, outside check mode, with the
\* network serving the archive and the operating system refusing nothing.
ServedBlock(st, b, p) ==
    LET dest == VersionedPath(b.tool, b.release)
        tar_gz == TmpTarGz(b.scratch)
        dir == TmpDir(b.scratch)
        installed == file_exists(st.fs, dest)
        s1 == IF installed THEN st
              ELSE download_file(st, tar_gz, b.url, Served, FALSE)
        s2 == IF installed \/ s1.status # "running" THEN s1
              ELSE extract_tar_gz(s1, tar_gz, dir, FALSE, FALSE)
        s3 == IF installed \/ s2.status # "running" THEN s2
              ELSE copy_executable(s2, dir, b.member, dest, FALSE, FALSE)
        s4 == IF ~p.symlink \/ s3.status # "running" THEN s3
              ELSE create_symlink(s3, UnversionedPath(b.tool), dest, FALSE)
        s5 == IF s4.status # "running" THEN s4
              ELSE delete_file(s4, tar_gz, FALSE, FALSE)
    IN  IF s5.status # "running" THEN s5
        ELSE delete_file(s5, dir, FALSE, FALSE)

RECURSIVE ServedBlocks(_, _, _, _)
ServedBlocks(st, blocks, i, p) ==
    IF i > Len(blocks) \/ st.status # "running" THEN st
    ELSE ServedBlocks(ServedBlock(st, blocks[i], p), blocks, i + 1, p)

\* The whole of a state=present invocation with parameters p started on the
\* filesystem files, under that network and operating system.
ServedRun(files, p) ==
    LET st == ServedBlocks([fs |-> files, changed |-> FALSE, status |-> "running",
                            msg |-> NoMsg, log |-> << >>],
                           PresentBlocks(p), 1, p)
    IN  IF st.status = "running" THEN _exit(st) ELSE st

\* C16: Recovery after a failed run.  A failed state=present run never leaves
\* the filesystem in a state from which every later identical invocation
\* fails: the same invocation started on the filesystem the failed run left,
\* with the network serving the correct archive with status 200 and no fault
\* of the operating system, does not fail leaving the filesystem as it found
\* it (from where each further repeat would fail in the same way).
C16_Recovery ==
    (PresentRun /\ status = "failed") =>
        ~ /\ ServedRun(fs, params).status = "failed"
          /\ ServedRun(fs, params).fs = fs

\* C13: Concurrent invocations on the same tool are unsafe.  Of two
\* state=present invocations with the same parameters, started on a clean
\* filesystem with the network serving every archive, one that is alone (no
\* other invocation runs while it does) never fails and, once it has exited,
\* leaves every versioned path it was asked for installed; an invocation fails
\* only when the other one ran at the same time.  That such a failure is
\* reachable is C13_Witness.
C13_AloneSucceeds ==
    \A q \in Procs :
        /\ procs[q].status = "failed" => ~procs[q].alone
        /\ (procs[q].status = "exited" /\ procs[q].alone) =>
               \A path \in RequestedPaths(params) : fs[path].kind = "file"

\* One invocation has completed and the other, interleaved with it, has
\* failed on a scratch path the first one removed or emptied.
C13_Witness ==
    \E q \in Procs, o \in Procs :
        /\ q # o
        /\ procs[o].status = "exited"
        /\ procs[q].status = "failed" /\ ~procs[q].alone
        /\ procs[q].msg = Repr("FileNotFoundError")

====
